---- MODULE Spec2Model ----
(***************************************************************************)
(* Model of the DataSift push endpoint (lib/server.js, current revision in *)
(* src/unnamed/part_001): request validation, body assembly, payload       *)
(* parsing and the confirmation handshake of Server.prototype.emitData.    *)
(*                                                                         *)
(* Texts are sequences of lexical tokens, one token counting as one byte:  *)
(*   "{" "}" "[" "]" ","   JSON punctuation                                *)
(*   "I"                   the member prefix  "interactions":              *)
(*   "K"                   the member prefix of any other key ("id":)      *)
(*   "1"                   a truthy scalar (the number 1)                  *)
(*   "n"                   the literal null                                *)
(*   "\n"                  newline, the whitespace character               *)
(*   "x"                   a character that starts no JSON value           *)
(*   "Z"                   the header of a zlib stream                     *)
(* Environment assumptions: listeners registered by the application do not *)
(* throw, and an `error` listener is registered.                           *)
(***************************************************************************)
EXTENDS Integers, Sequences, FiniteSets, TLC

\* ------------------------------------------------------------------ bounds
MaxLen == 2
MaxRecs == 2
MaxSize == 6
MaxDoneCalls == 2

\* ------------------------------------------------------------------ values
NL == "\n"
Tokens == {"{", "}", "[", "]", ",", "I", "K", "1", "n", NL, "x"}

Undefined == [t |-> "undefined", v |-> <<>>]
Null == [t |-> "null", v |-> <<>>]
Num == [t |-> "number", v |-> <<>>]
Arr(elems) == [t |-> "array", v |-> elems]
Obj(members) == [t |-> "object", v |-> members]

\* JavaScript falsiness of a parsed value (used by `if(!data) return`)
Falsy(val) == val.t \in {"undefined", "null"}

\* obj[key] = val on an object's member list: a repeated key keeps its place
SetMember(ms, key, val) ==
    IF \E i \in 1..Len(ms) : ms[i].k = key
    THEN [i \in 1..Len(ms) |-> IF ms[i].k = key THEN [k |-> key, v |-> val] ELSE ms[i]]
    ELSE Append(ms, [k |-> key, v |-> val])

\* value.interactions ; the caller decides what null.interactions does
GetMember(val, key) ==
    IF val.t = "object" /\ \E i \in 1..Len(val.v) : val.v[i].k = key
    THEN val.v[CHOOSE i \in 1..Len(val.v) : val.v[i].k = key].v
    ELSE Undefined

\* ------------------------------------------------------------- JSON.parse
RECURSIVE SkipWs(_)
SkipWs(s) == IF s # <<>> /\ Head(s) = NL THEN SkipWs(Tail(s)) ELSE s

Fail == [ok |-> FALSE, val |-> Undefined, rest |-> <<>>]
Ok(val, rest) == [ok |-> TRUE, val |-> val, rest |-> rest]

RECURSIVE ParseValue(_), ParseElems(_, _), ParseMembers(_, _)
ParseValue(s) ==
    LET t == SkipWs(s) IN
    IF t = <<>> THEN Fail
    ELSE IF Head(t) = "1" THEN Ok(Num, Tail(t))
    ELSE IF Head(t) = "n" THEN Ok(Null, Tail(t))
    ELSE IF Head(t) = "[" THEN
        LET u == SkipWs(Tail(t)) IN
        IF u # <<>> /\ Head(u) = "]" THEN Ok(Arr(<<>>), Tail(u))
        ELSE ParseElems(u, <<>>)
    ELSE IF Head(t) = "{" THEN
        LET u == SkipWs(Tail(t)) IN
        IF u # <<>> /\ Head(u) = "}" THEN Ok(Obj(<<>>), Tail(u))
        ELSE ParseMembers(u, <<>>)
    ELSE Fail

ParseElems(s, acc) ==
    LET r == ParseValue(s) IN
    IF ~r.ok THEN Fail
    ELSE LET u == SkipWs(r.rest) IN
         IF u = <<>> THEN Fail
         ELSE IF Head(u) = "," THEN ParseElems(Tail(u), Append(acc, r.val))
         ELSE IF Head(u) = "]" THEN Ok(Arr(Append(acc, r.val)), Tail(u))
         ELSE Fail

ParseMembers(s, acc) ==
    LET t == SkipWs(s) IN
    IF t = <<>> \/ Head(t) \notin {"I", "K"} THEN Fail
    ELSE LET r == ParseValue(Tail(t)) IN
         IF ~r.ok THEN Fail
         ELSE LET u == SkipWs(r.rest)
                  ms == SetMember(acc, Head(t), r.val) IN
              IF u = <<>> THEN Fail
              ELSE IF Head(u) = "," THEN ParseMembers(Tail(u), ms)
              ELSE IF Head(u) = "}" THEN Ok(Obj(ms), Tail(u))
              ELSE Fail

\* JSON.parse(text): [thrown, val]
JSONParse(text) ==
    LET r == ParseValue(text) IN
    IF r.ok /\ SkipWs(r.rest) = <<>> THEN [thrown |-> FALSE, val |-> r.val]
    ELSE [thrown |-> TRUE, val |-> Undefined]

\* String.prototype.trim
RECURSIVE TrimRight(_)
TrimRight(s) == IF s # <<>> /\ s[Len(s)] = NL THEN TrimRight(SubSeq(s, 1, Len(s) - 1)) ELSE s
Trim(s) == TrimRight(SkipWs(s))

\* String.prototype.split(sep): always at least one piece
RECURSIVE SplitAcc(_, _, _, _)
SplitAcc(s, sep, cur, acc) ==
    IF s = <<>> THEN Append(acc, cur)
    ELSE IF Head(s) = sep THEN SplitAcc(Tail(s), sep, <<>>, Append(acc, cur))
    ELSE SplitAcc(Tail(s), sep, Append(cur, Head(s)), acc)
Split(s, sep) == SplitAcc(s, sep, <<>>, <<>>)


\* JSON.stringify(value)
RECURSIVE Serialize(_), SerializeElems(_), SerializeMembers(_)
Serialize(val) ==
    IF val.t = "number" THEN <<"1">>
    ELSE IF val.t = "null" THEN <<"n">>
    ELSE IF val.t = "array" THEN <<"[">> \o SerializeElems(val.v) \o <<"]">>
    ELSE <<"{">> \o SerializeMembers(val.v) \o <<"}">>

SerializeElems(vs) ==
    IF vs = <<>> THEN <<>>
    ELSE IF Len(vs) = 1 THEN Serialize(vs[1])
    ELSE Serialize(vs[1]) \o <<",">> \o SerializeElems(Tail(vs))

SerializeMembers(ms) ==
    IF ms = <<>> THEN <<>>
    ELSE IF Len(ms) = 1 THEN <<ms[1].k>> \o Serialize(ms[1].v)
    ELSE <<ms[1].k>> \o Serialize(ms[1].v) \o <<",">> \o SerializeMembers(Tail(ms))

\* Array.prototype.join("\n") of the serialized records
RECURSIVE JoinLines(_)
JoinLines(vs) ==
    IF vs = <<>> THEN <<>>
    ELSE IF Len(vs) = 1 THEN Serialize(vs[1])
    ELSE Serialize(vs[1]) \o <<NL>> \o JoinLines(Tail(vs))

\* ------------------------------------------------------------------ inputs
SeqsUpTo(S, n) == UNION {[1..k -> S] : k \in 0..n}

RecordValues == {Num, Null, Obj(<<>>)}
Batches == SeqsUpTo(RecordValues, MaxRecs)
\* every text of at most MaxLen tokens
ShortTexts == SeqsUpTo(Tokens, MaxLen)
\* sender envelopes: {"interactions": X}, {"id":1,"interactions": X}, {"id":1}
EnvelopeValues ==
    {Obj(<<[k |-> "I", v |-> x]>>) : x \in {Arr(b) : b \in Batches} \cup RecordValues}
    \cup {Obj(<<[k |-> "K", v |-> Num], [k |-> "I", v |-> Arr(b)]>>) : b \in Batches}
    \cup {Obj(<<[k |-> "K", v |-> Num]>>)}
Envelopes == {Serialize(e) : e \in EnvelopeValues}
LineTexts == {JoinLines(b) : b \in Batches \ {<<>>}}
\* damaged payloads: a bad last line, an envelope cut short
BrokenTexts ==
    {t \o <<NL, "x">> : t \in LineTexts}
    \cup {SubSeq(e, 1, Len(e) - 1) : e \in Envelopes}
Bodies == ShortTexts \cup Envelopes \cup LineTexts \cup BrokenTexts
\* what travels on the wire: a text, or a zlib stream wrapping a text
WireBodies == Bodies \cup {<<"Z">> \o b : b \in Bodies}


\* ----------------------------------------------------------- configuration
Reqs == {"r1", "r2"}
Formats == {"json_meta", "json_array", "json_new_line"}
DEFAULT_PATH == <<"/">>
\* options.username / options.password: <<>> stands for "not configured"
CredentialOptions == [username : {<<>>, <<"u">>}, password : {<<>>, <<"p">>}]
PathOptions == {<<"/", "a">>}
DEFAULT_PORT == 80
DEFAULT_HOSTNAME == "undefined"
\* credentials not configured, or both configured
PairedCredentials == {c \in CredentialOptions : (c.username = <<>>) <=> (c.password = <<>>)}
Configs ==
    [format : Formats, confirmData : BOOLEAN, path : PathOptions,
     maxSize : {MaxSize}, credentials : PairedCredentials,
     port : {DEFAULT_PORT}, hostname : {DEFAULT_HOSTNAME}]
\* configurations for the validation steps: more paths, credentials and addresses
WideCredentials == CredentialOptions \cup {[username |-> <<"u">>, password |-> <<"p", ":", "q">>]}
WidePaths == {DEFAULT_PATH, <<"/", "a">>}
ValidateConfigs ==
    [format : {"json_meta"}, confirmData : BOOLEAN, path : WidePaths,
     maxSize : {MaxSize}, credentials : WideCredentials,
     port : {DEFAULT_PORT, 1234}, hostname : {DEFAULT_HOSTNAME, "example.com"}]

\* request inputs
Urls == {<<"/", "a">>, <<"/", "a", "b">>, <<"/", "b">>, <<"/", "a", "?", "q">>}
\* base64 is modelled as a codec: a word of the header is the text it decodes to
Base64(text) == [decoded |-> text]
Base64Decode(word) == word.decoded
\* the words "Basic" and "Bearer": they decode to bytes that are no credentials
SchemeWord == Base64(<<"?">>)
BearerWord == Base64(<<"?", "?">>)
AuthHeaders == {<<>>, <<SchemeWord, Base64(<<"u", ":", "p">>)>>}
WideAuthHeaders ==
    AuthHeaders \cup
    {<<SchemeWord, Base64(<<"u", ":", "x">>)>>,
     <<SchemeWord, Base64(<<"u", ":", "p", ":", "q">>)>>,
     <<SchemeWord, Base64(<<"u", ":", "p", ":", "x">>)>>,
     <<SchemeWord, Base64(<<"u">>)>>,
     <<BearerWord, Base64(<<"u", ":", "p">>)>>,
     <<Base64(<<"u", ":", "p">>)>>,
     <<SchemeWord>>}
\* one matching and one mismatching url for the runs that vary the bodies
NarrowUrls == {<<"/", "a", "?", "q">>, <<"/", "b">>}
WideUrls == Urls \cup {<<"/">>, <<"/", "b", "?", "/", "a">>, <<"/", "b", "/", "a">>}
\* a few bodies for the runs that vary the headers: empty, check, batch, zlib, oversize
SmallBodies ==
    {<<>>, <<"{", "}">>, <<"{", "I", "[", "1", "]", "}">>, <<"Z", "{", "}">>,
     <<"{", "I", "[", "1", ",", "1", ",", "1", ",", "1", "]", "}">>}
Encodings == {"gzip", "identity"}
NoSenderHeaders == [hash |-> "undefined", hash_type |-> "undefined", id |-> "undefined"]
SenderHeaders == {NoSenderHeaders, [hash |-> "h1", hash_type |-> "stream", id |-> "s1"]}
DoneArgs == {"undefined", "true", "false"}

NoRequest == [url |-> <<>>, authorization |-> <<>>, encoding |-> "identity", sender |-> NoSenderHeaders]
\* a method invoked directly on the server object, as the unit tests do
NoCall == [fn |-> "", args |-> <<>>, ret |-> Undefined]

VARIABLES server, listening, initialized, pc, request, rest, sent, buffer, size, destroyed,
          rawData, doneTimeout, calls, trace, call

vars == <<server, listening, initialized, pc, request, rest, sent, buffer, size, destroyed,
          rawData, doneTimeout, calls, trace, call>>
reqVars == <<pc, request, rest, sent, buffer, size, destroyed, rawData, doneTimeout, calls, trace, call>>

\* ------------------------------------------------------ response and events
SUCCESS_BODY == "{\"success\":true}"
STATUS_CODES(code) ==
    CASE code = 200 -> "OK"
      [] code = 400 -> "Bad Request"
      [] code = 401 -> "Unauthorized"
      [] code = 404 -> "Not Found"
      [] code = 413 -> "Request Entity Too Large"
      [] code = 500 -> "Internal Server Error"
      [] OTHER -> "undefined"

\* respond without the success body: the body is `data || STATUS_CODES[code]`
respond_NoSuccessBody(code, data) ==
    LET c == IF code = 0 THEN 200 ELSE code IN
    [kind |-> "respond", name |-> "", code |-> c,
     args |-> <<IF data # "" THEN data ELSE STATUS_CODES(c)>>]

\* one writeHead + end on the response; code 0 and data "" stand for undefined
respond(code, data) ==
    LET c == IF code = 0 THEN 200 ELSE code IN
    [kind |-> "respond", name |-> "", code |-> c,
     args |-> <<IF c = 200 /\ data = "" THEN SUCCESS_BODY
                ELSE IF data # "" THEN data ELSE STATUS_CODES(c)>>]

emit(name, args) == [kind |-> "emit", name |-> name, code |-> 0, args |-> args]
destroy == [kind |-> "destroy", name |-> "", code |-> 0, args |-> <<>>]


Reason(text, params) == [text |-> text, params |-> params]
REFUSED_AUTH == Reason("Request did not contain required authentication headers", <<>>)
REFUSED_PARSE == Reason("Could not parse post data", <<>>)
REFUSED_INFLATE == Reason("Could not inflate compressed data", <<>>)
REFUSED_SIZE == Reason("Post data exceeded limit of %1 bytes", <<<<server.maxSize>>>>)
REFUSED_PATH(path) == Reason("Requested path \"%1\" does not match \"%2\"", <<path, server.path>>)
TIMEOUT_ERROR == [message |-> "Callback for data event not called within allowed time"]

\* ------------------------------------------------------------- validation
\* each handler step yields [ret, out]: its return value and the calls it made
\* on the response / connection / emitter, in order
\* validateAuthentication asking for a header as soon as one of username and
\* password is configured
validateAuthentication_EitherRequired(authorization) ==
    IF ~(server.credentials.username # <<>> \/ server.credentials.password # <<>>)
    THEN [ret |-> TRUE, out |-> <<>>]
    ELSE LET encrypted == IF authorization = <<>> THEN <<>>
                          ELSE Base64Decode(authorization[Len(authorization)])
             credentials == Split(encrypted, ":")
         IN IF /\ credentials[1] = server.credentials.username
               /\ Len(credentials) >= 2
               /\ credentials[2] = server.credentials.password
            THEN [ret |-> TRUE, out |-> <<>>]
            ELSE [ret |-> FALSE, out |-> <<respond(401, ""), emit("refused", <<REFUSED_AUTH>>)>>]

validateAuthentication(authorization) ==
    IF ~(server.credentials.username # <<>> /\ server.credentials.password # <<>>)
    THEN [ret |-> TRUE, out |-> <<>>]
    ELSE LET encrypted == IF authorization = <<>> THEN <<>>
                          ELSE Base64Decode(authorization[Len(authorization)])
             credentials == Split(encrypted, ":")
         IN IF /\ credentials[1] = server.credentials.username
               /\ Len(credentials) >= 2
               /\ credentials[2] = server.credentials.password
            THEN [ret |-> TRUE, out |-> <<>>]
            ELSE [ret |-> FALSE, out |-> <<respond(401, ""), emit("refused", <<REFUSED_AUTH>>)>>]

\* url.parse(url, true): pathname is the text before the first "?"
UrlParse(url) ==
    LET parts == Split(url, "?") IN
    [pathname |-> parts[1],
     search |-> IF Len(parts) >= 2 THEN SubSeq(url, Len(parts[1]) + 1, Len(url)) ELSE <<>>]

\* path.indexOf(prefix) !== -1
StartsWith_Contains(path, prefix) ==
    \E i \in 1..(Len(path) + 1) :
        i + Len(prefix) - 1 <= Len(path) /\ SubSeq(path, i, i + Len(prefix) - 1) = prefix

\* path.indexOf(prefix) === 0
StartsWith(path, prefix) ==
    Len(prefix) <= Len(path) /\ SubSeq(path, 1, Len(prefix)) = prefix

validatePath(url) ==
    LET path == UrlParse(url).pathname IN
    IF StartsWith(path, server.path) THEN [ret |-> TRUE, out |-> <<>>]
    ELSE [ret |-> FALSE, out |-> <<respond(404, ""), emit("refused", <<REFUSED_PATH(path)>>)>>]

\* validateSize refusing a body of exactly maxSize bytes
validateSize_Strict(sz) ==
    IF sz < server.maxSize THEN [ret |-> TRUE, out |-> <<>>]
    ELSE [ret |-> FALSE, out |-> <<respond(413, ""), destroy, emit("refused", <<REFUSED_SIZE>>)>>]

validateSize(sz) ==
    IF sz <= server.maxSize THEN [ret |-> TRUE, out |-> <<>>]
    ELSE [ret |-> FALSE, out |-> <<respond(413, ""), destroy, emit("refused", <<REFUSED_SIZE>>)>>]

\* ------------------------------------------------------- check and parsing
\* handleCheck that recognizes no payload
handleCheck_Never(raw) == [ret |-> FALSE, out |-> <<>>]

handleCheck(raw) ==
    IF raw = <<"{", "}">> THEN [ret |-> TRUE, out |-> <<respond(200, ""), emit("check", <<>>)>>]
    ELSE [ret |-> FALSE, out |-> <<>>]

\* parse dropping the lines that fail instead of failing the request
parseTry_SkipBadLines(raw) ==
    IF server.format \in {"json_meta", "json_array"}
    THEN LET j == JSONParse(raw) IN
         IF j.thrown \/ j.val.t = "null" THEN [thrown |-> TRUE, data |-> Undefined]
         ELSE [thrown |-> FALSE, data |-> GetMember(j.val, "I")]
    ELSE LET lines == Split(Trim(raw), NL)
             good == SelectSeq(lines, LAMBDA l : ~JSONParse(l).thrown) IN
         [thrown |-> FALSE, data |-> Arr([i \in 1..Len(good) |-> JSONParse(good[i]).val])]

\* parse returning the whole envelope instead of its interactions
parseTry_WholeEnvelope(raw) ==
    IF server.format \in {"json_meta", "json_array"}
    THEN LET j == JSONParse(raw) IN
         IF j.thrown \/ j.val.t = "null" THEN [thrown |-> TRUE, data |-> Undefined]
         ELSE [thrown |-> FALSE, data |-> j.val]
    ELSE LET lines == Split(Trim(raw), NL)
             parsed == [i \in 1..Len(lines) |-> JSONParse(lines[i])] IN
         IF \E i \in 1..Len(lines) : parsed[i].thrown THEN [thrown |-> TRUE, data |-> Undefined]
         ELSE [thrown |-> FALSE, data |-> Arr([i \in 1..Len(lines) |-> parsed[i].val])]

\* parse taking a blank payload for an empty batch
parseTry_BlankIsEmptyBatch(raw) ==
    IF Trim(raw) = <<>> THEN [thrown |-> FALSE, data |-> Arr(<<>>)]
    ELSE IF server.format \in {"json_meta", "json_array"}
    THEN LET j == JSONParse(raw) IN
         IF j.thrown \/ j.val.t = "null" THEN [thrown |-> TRUE, data |-> Undefined]
         ELSE [thrown |-> FALSE, data |-> GetMember(j.val, "I")]
    ELSE LET lines == Split(Trim(raw), NL)
             parsed == [i \in 1..Len(lines) |-> JSONParse(lines[i])] IN
         IF \E i \in 1..Len(lines) : parsed[i].thrown THEN [thrown |-> TRUE, data |-> Undefined]
         ELSE [thrown |-> FALSE, data |-> Arr([i \in 1..Len(lines) |-> parsed[i].val])]

\* the try block of parse: [thrown, data]
parseTry(raw) ==
    IF server.format \in {"json_meta", "json_array"}
    THEN LET j == JSONParse(raw) IN
         IF j.thrown \/ j.val.t = "null" THEN [thrown |-> TRUE, data |-> Undefined]
         ELSE [thrown |-> FALSE, data |-> GetMember(j.val, "I")]
    ELSE LET lines == Split(Trim(raw), NL)
             parsed == [i \in 1..Len(lines) |-> JSONParse(lines[i])] IN
         IF \E i \in 1..Len(lines) : parsed[i].thrown THEN [thrown |-> TRUE, data |-> Undefined]
         ELSE [thrown |-> FALSE, data |-> Arr([i \in 1..Len(lines) |-> parsed[i].val])]

parse(raw) ==
    LET t == parseTry(raw) IN
    IF t.thrown THEN [ret |-> Undefined, out |-> <<respond(400, ""), emit("refused", <<REFUSED_PARSE>>)>>]
    ELSE [ret |-> t.data, out |-> <<>>]

\* --------------------------------------------------------------- delivery
clearTimeout(timer) == IF timer = "pending" THEN "cleared" ELSE timer

\* done without clearTimeout
done_NoClear(success, timer) ==
    [out |-> <<respond(IF success = "false" THEN 500 ELSE 200, "")>>, timer |-> timer]

\* done testing for an explicit success instead of an explicit failure
done_Inverted(success, timer) ==
    [out |-> <<respond(IF success = "true" THEN 200 ELSE 500, "")>>,
     timer |-> clearTimeout(timer)]

\* the completion callback of emitData: [out, timer]
done(success, timer) ==
    [out |-> <<respond(IF success = "false" THEN 500 ELSE 200, "")>>,
     timer |-> clearTimeout(timer)]

Meta(req) ==
    [url |-> req.url, url_parsed |-> UrlParse(req.url),
     hash |-> req.sender.hash, hash_type |-> req.sender.hash_type, id |-> req.sender.id]

DoneCallback(r) == [fn |-> "done", req |-> r]

\* emitData finalizing at once whatever confirmData says
emitData_AlwaysDone(r, req, data) ==
    LET d == done("undefined", "pending") IN
    [out |-> <<emit("data", <<data, Meta(req), DoneCallback(r)>>)>> \o d.out, timer |-> d.timer]

\* emitData waiting for the application whatever confirmData says
emitData_AlwaysConfirm(r, req, data) ==
    [out |-> <<emit("data", <<data, Meta(req), DoneCallback(r)>>)>>, timer |-> "pending"]

\* emitData refusing a request that carries no sender headers
emitData_RequiresHeaders(r, req, data) ==
    IF req.sender = NoSenderHeaders
    THEN [out |-> <<respond(400, ""), emit("refused", <<REFUSED_PARSE>>)>>, timer |-> "unset"]
    ELSE IF server.confirmData
    THEN [out |-> <<emit("data", <<data, Meta(req), DoneCallback(r)>>)>>, timer |-> "pending"]
    ELSE LET d == done("undefined", "pending") IN
         [out |-> <<emit("data", <<data, Meta(req)>>)>> \o d.out, timer |-> d.timer]

\* emitData writing the response of an unconfirmed delivery before it emits
emitData_RespondFirst(r, req, data) ==
    IF server.confirmData
    THEN [out |-> <<emit("data", <<data, Meta(req), DoneCallback(r)>>)>>, timer |-> "pending"]
    ELSE LET d == done("undefined", "pending") IN
         [out |-> d.out \o <<emit("data", <<data, Meta(req)>>)>>, timer |-> d.timer]

\* emitData up to its return: [out, timer]; the timer is armed before the emission
emitData(r, req, data) ==
    IF server.confirmData
    THEN [out |-> <<emit("data", <<data, Meta(req), DoneCallback(r)>>)>>, timer |-> "pending"]
    ELSE LET d == done("undefined", "pending") IN
         [out |-> <<emit("data", <<data, Meta(req)>>)>> \o d.out, timer |-> d.timer]

\* handleRequestData going on to parse after a check was answered
handleRequestData_NoReturn(r, req, raw) ==
    LET c == handleCheck(raw)
        p == parse(raw)
    IN IF Falsy(p.ret) THEN [out |-> c.out \o p.out, timer |-> "unset"]
       ELSE LET e == emitData(r, req, p.ret) IN [out |-> c.out \o e.out, timer |-> e.timer]

handleRequestData(r, req, raw) ==
    LET c == handleCheck(raw) IN
    IF c.ret THEN [out |-> c.out, timer |-> "unset"]
    ELSE LET p == parse(raw) IN
         IF Falsy(p.ret) THEN [out |-> p.out, timer |-> "unset"]
         ELSE emitData(r, req, p.ret)

\* zlib.inflate(buffer): [error, data]
inflate(buf) ==
    IF buf # <<>> /\ Head(buf) = "Z" THEN [error |-> FALSE, data |-> Tail(buf)]
    ELSE [error |-> TRUE, data |-> <<>>]


\* ---------------------------------------------------------------- actions
InitWith(configs) ==
    /\ server \in configs
    /\ listening = FALSE
    /\ initialized = <<>>
    /\ pc = [r \in Reqs |-> "idle"]
    /\ request = [r \in Reqs |-> NoRequest]
    /\ rest = [r \in Reqs |-> <<>>]
    /\ buffer = [r \in Reqs |-> <<>>]
    /\ size = [r \in Reqs |-> 0]
    /\ destroyed = [r \in Reqs |-> FALSE]
    /\ rawData = [r \in Reqs |-> <<>>]
    /\ doneTimeout = [r \in Reqs |-> "unset"]
    /\ calls = [r \in Reqs |-> <<>>]
    /\ trace = [r \in Reqs |-> <<>>]
    /\ sent = [r \in Reqs |-> <<>>]
    /\ call = [r \in Reqs |-> NoCall]

Init == InitWith(Configs)

\* the listen callback announcing the default port instead of this.port
Listen_DefaultPort ==
    /\ ~listening
    /\ listening' = TRUE
    /\ initialized' = Append(initialized, <<DEFAULT_PORT, server.hostname>>)
    /\ UNCHANGED <<server, reqVars>>

\* the listen callback of initialize
Listen ==
    /\ ~listening
    /\ listening' = TRUE
    /\ initialized' = Append(initialized, <<server.port, server.hostname>>)
    /\ UNCHANGED <<server, reqVars>>

\* handleRequest up to the registration of the data / end handlers
\* handleRequest validating the path before the authentication
HandleRequest_PathFirst(r, urls, auths, bodies) ==
    /\ listening
    /\ pc[r] = "idle"
    /\ \E url \in urls, authorization \in auths, encoding \in Encodings,
          sender \in SenderHeaders, body \in bodies :
        LET a == validateAuthentication(authorization)
            p == validatePath(url)
        IN /\ request' = [request EXCEPT ![r] = [url |-> url, authorization |-> authorization,
                                                 encoding |-> encoding, sender |-> sender]]
           /\ rest' = [rest EXCEPT ![r] = body]
           /\ IF ~p.ret
              THEN /\ pc' = [pc EXCEPT ![r] = "rejected"]
                   /\ trace' = [trace EXCEPT ![r] = @ \o p.out]
              ELSE IF ~a.ret
              THEN /\ pc' = [pc EXCEPT ![r] = "rejected"]
                   /\ trace' = [trace EXCEPT ![r] = @ \o a.out]
              ELSE /\ pc' = [pc EXCEPT ![r] = "receiving"]
                   /\ UNCHANGED trace
    /\ UNCHANGED <<server, listening, initialized, sent, buffer, size, destroyed, rawData, doneTimeout, calls, call>>

\* pc "rejected": the function returned before registering any handler; the
\* sender's body still arrives, to no listener
HandleRequest(r, urls, auths, bodies) ==
    /\ listening
    /\ pc[r] = "idle"
    /\ \E url \in urls, authorization \in auths, encoding \in Encodings,
          sender \in SenderHeaders, body \in bodies :
        LET a == validateAuthentication(authorization)
            p == validatePath(url)
        IN /\ request' = [request EXCEPT ![r] = [url |-> url, authorization |-> authorization,
                                                 encoding |-> encoding, sender |-> sender]]
           /\ rest' = [rest EXCEPT ![r] = body]
           /\ IF ~a.ret
              THEN /\ pc' = [pc EXCEPT ![r] = "rejected"]
                   /\ trace' = [trace EXCEPT ![r] = @ \o a.out]
              ELSE IF ~p.ret
              THEN /\ pc' = [pc EXCEPT ![r] = "rejected"]
                   /\ trace' = [trace EXCEPT ![r] = @ \o p.out]
              ELSE /\ pc' = [pc EXCEPT ![r] = "receiving"]
                   /\ UNCHANGED trace
    /\ UNCHANGED <<server, listening, initialized, sent, buffer, size, destroyed, rawData, doneTimeout, calls, call>>

\* the data handler without its `connection.destroyed` test
Data_NoDestroyedGuard(r) ==
    /\ pc[r] \in {"receiving", "rejected"}
    /\ rest[r] # <<>>
    /\ \E n \in 1..Len(rest[r]) :
        LET chunk == SubSeq(rest[r], 1, n)
            v == validateSize(size[r] + Len(chunk))
        IN /\ rest' = [rest EXCEPT ![r] = SubSeq(@, n + 1, Len(@))]
           /\ sent' = [sent EXCEPT ![r] = @ \o chunk]
           /\ IF pc[r] = "rejected"
              THEN UNCHANGED <<size, buffer, destroyed, trace>>
              ELSE /\ size' = [size EXCEPT ![r] = @ + Len(chunk)]
                   /\ IF ~v.ret
                      THEN /\ trace' = [trace EXCEPT ![r] = @ \o v.out]
                           /\ destroyed' = [destroyed EXCEPT ![r] = TRUE]
                           /\ UNCHANGED buffer
                      ELSE /\ buffer' = [buffer EXCEPT ![r] = @ \o chunk]
                           /\ UNCHANGED <<trace, destroyed>>
    /\ UNCHANGED <<server, listening, initialized, pc, request, rawData, doneTimeout, calls, call>>

\* the data handler counting the size in one counter shared by every request
Data_SharedSize(r) ==
    /\ pc[r] \in {"receiving", "rejected"}
    /\ rest[r] # <<>>
    /\ \E n \in 1..Len(rest[r]) :
        LET chunk == SubSeq(rest[r], 1, n)
            v == validateSize(size["r1"] + size["r2"] + Len(chunk))
        IN /\ rest' = [rest EXCEPT ![r] = SubSeq(@, n + 1, Len(@))]
           /\ sent' = [sent EXCEPT ![r] = @ \o chunk]
           /\ IF pc[r] = "rejected" \/ destroyed[r]
              THEN UNCHANGED <<size, buffer, destroyed, trace>>
              ELSE /\ size' = [size EXCEPT ![r] = @ + Len(chunk)]
                   /\ IF ~v.ret
                      THEN /\ trace' = [trace EXCEPT ![r] = @ \o v.out]
                           /\ destroyed' = [destroyed EXCEPT ![r] = TRUE]
                           /\ UNCHANGED buffer
                      ELSE /\ buffer' = [buffer EXCEPT ![r] = @ \o chunk]
                           /\ UNCHANGED <<trace, destroyed>>
    /\ UNCHANGED <<server, listening, initialized, pc, request, rawData, doneTimeout, calls, call>>

\* the data handler handing what it has so far to handleRequestData at once
Data_HandleEachChunk(r) ==
    /\ pc[r] \in {"receiving", "rejected"}
    /\ rest[r] # <<>>
    /\ \E n \in 1..Len(rest[r]) :
        LET chunk == SubSeq(rest[r], 1, n)
            v == validateSize(size[r] + Len(chunk))
            h == handleRequestData(r, request[r], buffer[r] \o chunk)
        IN /\ rest' = [rest EXCEPT ![r] = SubSeq(@, n + 1, Len(@))]
           /\ sent' = [sent EXCEPT ![r] = @ \o chunk]
           /\ IF pc[r] = "rejected" \/ destroyed[r]
              THEN UNCHANGED <<size, buffer, destroyed, trace>>
              ELSE /\ size' = [size EXCEPT ![r] = @ + Len(chunk)]
                   /\ IF ~v.ret
                      THEN /\ trace' = [trace EXCEPT ![r] = @ \o v.out]
                           /\ destroyed' = [destroyed EXCEPT ![r] = TRUE]
                           /\ UNCHANGED buffer
                      ELSE /\ buffer' = [buffer EXCEPT ![r] = @ \o chunk]
                           /\ trace' = [trace EXCEPT ![r] = @ \o h.out]
                           /\ UNCHANGED destroyed
    /\ UNCHANGED <<server, listening, initialized, pc, request, rawData, doneTimeout, calls, call>>

\* the request's 'data' handler, for the next chunk of the body
Data(r) ==
    /\ pc[r] \in {"receiving", "rejected"}
    /\ rest[r] # <<>>
    /\ \E n \in 1..Len(rest[r]) :
        LET chunk == SubSeq(rest[r], 1, n)
            v == validateSize(size[r] + Len(chunk))
        IN /\ rest' = [rest EXCEPT ![r] = SubSeq(@, n + 1, Len(@))]
           /\ sent' = [sent EXCEPT ![r] = @ \o chunk]
           /\ IF pc[r] = "rejected" \/ destroyed[r]
              THEN UNCHANGED <<size, buffer, destroyed, trace>>
              ELSE /\ size' = [size EXCEPT ![r] = @ + Len(chunk)]
                   /\ IF ~v.ret
                      THEN /\ trace' = [trace EXCEPT ![r] = @ \o v.out]
                           /\ destroyed' = [destroyed EXCEPT ![r] = TRUE]
                           /\ UNCHANGED buffer
                      ELSE /\ buffer' = [buffer EXCEPT ![r] = @ \o chunk]
                           /\ UNCHANGED <<trace, destroyed>>
    /\ UNCHANGED <<server, listening, initialized, pc, request, rawData, doneTimeout, calls, call>>

\* the request's 'end' handler
End(r) ==
    /\ pc[r] = "receiving"
    /\ rest[r] = <<>> \/ destroyed[r]
    /\ IF destroyed[r]
       THEN /\ pc' = [pc EXCEPT ![r] = "ended"]
            /\ UNCHANGED <<rawData, doneTimeout, trace>>
       ELSE IF request[r].encoding = "gzip"
       THEN /\ pc' = [pc EXCEPT ![r] = "inflating"]
            /\ UNCHANGED <<rawData, doneTimeout, trace>>
       ELSE LET h == handleRequestData(r, request[r], buffer[r]) IN
            /\ pc' = [pc EXCEPT ![r] = "handled"]
            /\ rawData' = [rawData EXCEPT ![r] = buffer[r]]
            /\ doneTimeout' = [doneTimeout EXCEPT ![r] = h.timer]
            /\ trace' = [trace EXCEPT ![r] = @ \o h.out]
    /\ UNCHANGED <<server, listening, initialized, request, rest, sent, buffer, size, destroyed, calls, call>>

\* the inflate callback going on with the raw body when inflate failed
Inflated_IgnoreError(r) ==
    /\ pc[r] = "inflating"
    /\ LET z == inflate(buffer[r])
           raw == IF z.error THEN buffer[r] ELSE z.data
           h == handleRequestData(r, request[r], raw)
       IN /\ pc' = [pc EXCEPT ![r] = "handled"]
          /\ rawData' = [rawData EXCEPT ![r] = raw]
          /\ doneTimeout' = [doneTimeout EXCEPT ![r] = h.timer]
          /\ trace' = [trace EXCEPT ![r] = @ \o h.out]
    /\ UNCHANGED <<server, listening, initialized, request, rest, sent, buffer, size, destroyed, calls, call>>

\* the callback of zlib.inflate
Inflated(r) ==
    /\ pc[r] = "inflating"
    /\ LET z == inflate(buffer[r])
           h == handleRequestData(r, request[r], z.data)
       IN IF z.error
          THEN /\ pc' = [pc EXCEPT ![r] = "ended"]
               /\ trace' = [trace EXCEPT ![r] = @ \o <<respond(400, ""), emit("refused", <<REFUSED_INFLATE>>)>>]
               /\ UNCHANGED <<rawData, doneTimeout>>
          ELSE /\ pc' = [pc EXCEPT ![r] = "handled"]
               /\ rawData' = [rawData EXCEPT ![r] = z.data]
               /\ doneTimeout' = [doneTimeout EXCEPT ![r] = h.timer]
               /\ trace' = [trace EXCEPT ![r] = @ \o h.out]
    /\ UNCHANGED <<server, listening, initialized, request, rest, sent, buffer, size, destroyed, calls, call>>

\* the application holds the completion callback of r
HoldsDone(r) ==
    \E i \in 1..Len(trace[r]) :
        /\ trace[r][i].kind = "emit" /\ trace[r][i].name = "data"
        /\ Len(trace[r][i].args) = 3

\* the completion callback clearing one timer kept on the server object
Done_SharedTimer(r, success) ==
    /\ HoldsDone(r)
    /\ Len(calls[r]) < MaxDoneCalls
    /\ LET d == done(success, doneTimeout[r]) IN
       /\ doneTimeout' = [o \in Reqs |-> clearTimeout(doneTimeout[o])]
       /\ trace' = [trace EXCEPT ![r] = @ \o d.out]
    /\ calls' = [calls EXCEPT ![r] = Append(@, success)]
    /\ UNCHANGED <<server, listening, initialized, pc, request, rest, sent, buffer, size, destroyed, rawData, call>>

\* the application invokes the completion callback
Done(r, success) ==
    /\ HoldsDone(r)
    /\ Len(calls[r]) < MaxDoneCalls
    /\ LET d == done(success, doneTimeout[r]) IN
       /\ doneTimeout' = [doneTimeout EXCEPT ![r] = d.timer]
       /\ trace' = [trace EXCEPT ![r] = @ \o d.out]
    /\ calls' = [calls EXCEPT ![r] = Append(@, success)]
    /\ UNCHANGED <<server, listening, initialized, pc, request, rest, sent, buffer, size, destroyed, rawData, call>>

\* the timer calling done(false) without emitting the error
Timeout_Silent(r) ==
    /\ doneTimeout[r] = "pending"
    /\ LET d == done("false", "fired") IN
       /\ doneTimeout' = [doneTimeout EXCEPT ![r] = d.timer]
       /\ trace' = [trace EXCEPT ![r] = @ \o d.out]
    /\ UNCHANGED <<server, listening, initialized, pc, request, rest, sent, buffer, size, destroyed, rawData, calls, call>>

\* the confirmation timer of emitData fires
Timeout(r) ==
    /\ doneTimeout[r] = "pending"
    /\ LET d == done("false", "fired") IN
       /\ doneTimeout' = [doneTimeout EXCEPT ![r] = d.timer]
       /\ trace' = [trace EXCEPT ![r] = @ \o <<emit("error", <<TIMEOUT_ERROR>>)>> \o d.out]
    /\ UNCHANGED <<server, listening, initialized, pc, request, rest, sent, buffer, size, destroyed, rawData, calls, call>>

Single == {"r1"}

Next ==
    \/ Listen
    \/ \E r \in Single : HandleRequest(r, NarrowUrls, AuthHeaders, WireBodies)
    \/ \E r \in Single : Data(r)
    \/ \E r \in Single : End(r)
    \/ \E r \in Single : Inflated(r)
    \/ \E r \in Single, success \in DoneArgs : Done(r, success)
    \/ \E r \in Single : Timeout(r)

Spec == Init /\ [][Next]_vars

\* ------------------------------------------------ several requests in flight
\* two requests at once on one server: a check, a batch of exactly maxSize
\* and an oversize batch, on the configured path and without credentials
PairConfigs ==
    [format : {"json_meta"}, confirmData : BOOLEAN, path : PathOptions,
     maxSize : {MaxSize}, credentials : {[username |-> <<>>, password |-> <<>>]},
     port : {DEFAULT_PORT}, hostname : {DEFAULT_HOSTNAME}]
PairUrls == {<<"/", "a">>}
PairAuthHeaders == {<<>>}
PairBodies ==
    {<<"{", "}">>, <<"{", "I", "[", "1", "]", "}">>,
     <<"{", "I", "[", "1", ",", "1", ",", "1", "]", "}">>}

InitPair == InitWith(PairConfigs)

NextPair ==
    \/ Listen
    \/ \E r \in Reqs : HandleRequest(r, PairUrls, PairAuthHeaders, PairBodies)
    \/ \E r \in Reqs : Data(r)
    \/ \E r \in Reqs : End(r)
    \/ \E r \in Reqs : Inflated(r)
    \/ \E r \in Reqs, success \in DoneArgs : Done(r, success)
    \/ \E r \in Reqs : Timeout(r)

SpecPair == InitPair /\ [][NextPair]_vars

\* ------------------------------------------------- methods called directly
\* records with members and nesting, for the calls of parse
RichRecords == RecordValues \cup {Obj(<<[k |-> "K", v |-> Num]>>), Arr(<<Num>>), Arr(<<>>)}
RichBatches == SeqsUpTo(RichRecords, MaxRecs)
EnvelopeOf(X) == Obj(<<[k |-> "I", v |-> Arr(X)]>>)
ParseInputs ==
    {Serialize(EnvelopeOf(X)) : X \in RichBatches} \cup {JoinLines(X) : X \in RichBatches}
        \cup ShortTexts
\* status codes and body texts handed to respond; 0 and "" are undefined
RespondCodes == {0, 200, 400, 401, 404, 413, 500}
RespondData == {"", "lorem"}

\* s.parse(request, response, rawData)
CallParse(r) ==
    /\ pc[r] = "idle"
    /\ \E raw \in ParseInputs :
        LET p == parse(raw) IN
        /\ call' = [call EXCEPT ![r] = [fn |-> "parse", args |-> <<raw>>, ret |-> p.ret]]
        /\ trace' = [trace EXCEPT ![r] = p.out]
    /\ pc' = [pc EXCEPT ![r] = "called"]
    /\ UNCHANGED <<server, listening, initialized, request, rest, sent, buffer, size, destroyed,
                   rawData, doneTimeout, calls>>

\* s.respond(response, code, data)
CallRespond(r) ==
    /\ pc[r] = "idle"
    /\ \E code \in RespondCodes, data \in RespondData :
        /\ call' = [call EXCEPT ![r] = [fn |-> "respond", args |-> <<code, data>>, ret |-> Undefined]]
        /\ trace' = [trace EXCEPT ![r] = <<respond(code, data)>>]
    /\ pc' = [pc EXCEPT ![r] = "called"]
    /\ UNCHANGED <<server, listening, initialized, request, rest, sent, buffer, size, destroyed,
                   rawData, doneTimeout, calls>>

NextCalls ==
    \/ Listen
    \/ \E r \in Single : CallParse(r)
    \/ \E r \in Single : CallRespond(r)

SpecCalls == Init /\ [][NextCalls]_vars

\* the same server, varied in its validation options and in the request line
\* and headers, with a few bodies
InitValidate == InitWith(ValidateConfigs)

NextValidate ==
    \/ Listen
    \/ \E r \in Single : HandleRequest(r, WideUrls, WideAuthHeaders, SmallBodies)
    \/ \E r \in Single : Data(r)
    \/ \E r \in Single : End(r)
    \/ \E r \in Single : Inflated(r)
    \/ \E r \in Single, success \in DoneArgs : Done(r, success)
    \/ \E r \in Single : Timeout(r)

SpecValidate == InitValidate /\ [][NextValidate]_vars

\* the listen callback is queued by listen and always runs
SpecListen == SpecValidate /\ WF_vars(Listen)


\* ------------------------------------------------------------ observations
Responses(r) == SelectSeq(trace[r], LAMBDA e : e.kind = "respond")
Emitted(r, name) == SelectSeq(trace[r], LAMBDA e : e.kind = "emit" /\ e.name = name)
Delivered(r) == Emitted(r, "data") # <<>>
FirstRespond(r) ==
    CHOOSE i \in 1..Len(trace[r]) :
        trace[r][i].kind = "respond" /\ \A j \in 1..(i - 1) : trace[r][j].kind # "respond"
\* the first response of a delivered request was not written by the timer
WrittenByCompletion(r) ==
    /\ Delivered(r)
    /\ Responses(r) # <<>>
    /\ LET i == FirstRespond(r) IN
       ~(i > 1 /\ trace[r][i - 1].kind = "emit" /\ trace[r][i - 1].name = "error")
\* the request is over: its handlers have run and no timer is pending
Settled(r) == pc[r] \in {"rejected", "ended", "handled"} /\ doneTimeout[r] # "pending"
CHECK_TEXT == <<"{", "}">>
\* valid JSON in the sense of JSON.parse
ValidJSON(text) == ~JSONParse(text).thrown
\* some part of the payload is not valid JSON under the configured framing
Malformed(fmt, raw) ==
    IF fmt \in {"json_meta", "json_array"} THEN ~ValidJSON(raw)
    ELSE LET lines == Split(Trim(raw), NL) IN \E i \in 1..Len(lines) : ~ValidJSON(lines[i])

\* ------------------------------------------------------------------ claims

\* C1: in confirmed mode the response of a request is written at most once,
\* whatever the interleaving of completion-callback calls and the timer.
C1_WrittenAtMostOnce ==
    \A r \in Reqs : server.confirmData => Len(Responses(r)) <= 1

\* C2: every request whose handling is over (handlers have run, no timer
\* pending) has had its response written exactly once.
C2_FinalizedExactlyOnce ==
    \A r \in Reqs : Settled(r) => Len(Responses(r)) = 1

\* C3: in confirmed mode, when the timer fires and the application never
\* called the completion callback, exactly one `error` notification with the
\* missed-confirmation message is emitted and the response is written with 500.
C3_TimeoutErrorAnd500 ==
    \A r \in Reqs :
        (server.confirmData /\ doneTimeout[r] = "fired" /\ calls[r] = <<>>) =>
            /\ Len(Emitted(r, "error")) = 1
            /\ Emitted(r, "error")[1].args[1].message
                   = "Callback for data event not called within allowed time"
            /\ Len(Responses(r)) = 1
            /\ Responses(r)[1].code = 500

C3_Witness ==
    \E r \in Reqs : server.confirmData /\ doneTimeout[r] = "fired" /\ calls[r] = <<>>

\* C4: once the response of a delivered request has been written by the
\* completion callback or by immediate finalization, no timer is pending for
\* the request and no timeout `error` notification is emitted for it.
C4_TimerCancelled ==
    \A r \in Reqs :
        WrittenByCompletion(r) =>
            /\ doneTimeout[r] # "pending"
            /\ Emitted(r, "error") = <<>>

C4_Witness ==
    \E r \in Reqs :
        /\ server.confirmData /\ WrittenByCompletion(r)
        /\ Len(calls[r]) = MaxDoneCalls /\ doneTimeout[r] = "cleared"

\* C5: in confirmed mode, when the completion callback is invoked before the
\* timer fires, the status is 500 for done(false) and 200 for done() / done(true).
C5_StatusFollowsArgument ==
    \A r \in Reqs :
        (calls[r] # <<>> /\ WrittenByCompletion(r)) =>
            Responses(r)[1].code = (IF calls[r][1] = "false" THEN 500 ELSE 200)

C5_Witness ==
    \E r \in Reqs :
        /\ calls[r] = <<"false">> /\ WrittenByCompletion(r)
        /\ Responses(r)[1].code = 500

\* C6: in confirmed mode the `data` notification carries batch, metadata and
\* completion callback, and the response stays unwritten from the emission
\* until the callback is invoked or the timer fires.
C6_ConfirmedWaits ==
    \A r \in Reqs :
        (server.confirmData /\ Delivered(r)) =>
            /\ Len(Emitted(r, "data")) = 1
            /\ Len(Emitted(r, "data")[1].args) = 3
            /\ Emitted(r, "data")[1].args[1].t # "undefined"
            /\ Emitted(r, "data")[1].args[2].url = request[r].url
            /\ Emitted(r, "data")[1].args[3] = DoneCallback(r)
            /\ (calls[r] = <<>> /\ doneTimeout[r] # "fired") => Responses(r) = <<>>

C6_Witness ==
    \E r \in Reqs :
        /\ server.confirmData /\ Delivered(r)
        /\ calls[r] = <<>> /\ doneTimeout[r] = "pending" /\ Responses(r) = <<>>

\* C7: in fire-and-forget mode the `data` notification carries batch and
\* metadata but no callback, and the 200 response is written in the step that
\* emits it (no state has the notification without the response).
C7_FireAndForget ==
    \A r \in Reqs :
        (~server.confirmData /\ Delivered(r)) =>
            /\ Len(Emitted(r, "data")) = 1
            /\ Len(Emitted(r, "data")[1].args) = 2
            /\ Emitted(r, "data")[1].args[2].url = request[r].url
            /\ Len(Responses(r)) = 1
            /\ Responses(r)[1].code = 200
            /\ calls[r] = <<>>

C7_Witness ==
    \E r \in Reqs : ~server.confirmData /\ Delivered(r) /\ Len(Responses(r)) = 1

\* C8: for formats meta and array, a valid-JSON payload (other than the check)
\* whose `interactions` is missing or not an array gets 400, one `refused`
\* notification 'Could not parse post data' and no `data` notification.
C8_MissingInteractionsRefused ==
    \A r \in Reqs :
        (/\ pc[r] = "handled"
         /\ server.format \in {"json_meta", "json_array"}
         /\ rawData[r] # CHECK_TEXT
         /\ ValidJSON(rawData[r])
         /\ GetMember(JSONParse(rawData[r]).val, "I").t # "array") =>
            /\ Len(Responses(r)) = 1 /\ Responses(r)[1].code = 400
            /\ Len(Emitted(r, "refused")) = 1
            /\ Emitted(r, "refused")[1].args[1].text = "Could not parse post data"
            /\ ~Delivered(r)

C10_CheckRequest ==
    \A r \in Reqs :
        (pc[r] = "handled" /\ rawData[r] = CHECK_TEXT) =>
            /\ Len(Responses(r)) = 1
            /\ Responses(r)[1].code = 200
            /\ Responses(r)[1].args = <<"{\"success\":true}">>
            /\ Len(Emitted(r, "check")) = 1
            /\ Emitted(r, "data") = <<>>
            /\ doneTimeout[r] = "unset"

C10_Witness ==
    \E r \in Reqs :
        /\ pc[r] = "handled" /\ rawData[r] = CHECK_TEXT
        /\ server.format = "json_new_line" /\ server.confirmData


\* the handlers of r were registered (authentication and path passed)
Accepted(r) == pc[r] \in {"receiving", "inflating", "ended", "handled"}
Destroys(r) == SelectSeq(trace[r], LAMBDA e : e.kind = "destroy")

\* C11: when the chunks received so far exceed maxSize, the 413 response, the
\* connection close and the size `refused` notification have each occurred
\* exactly once, whatever arrived afterwards, and no `data` or `check`
\* notification is emitted for the request.
C11_OversizeRejectedOnce ==
    \A r \in Reqs :
        (Accepted(r) /\ Len(sent[r]) > server.maxSize) =>
            /\ Len(Responses(r)) = 1
            /\ Responses(r)[1].code = 413
            /\ Len(Destroys(r)) = 1
            /\ Len(Emitted(r, "refused")) = 1
            /\ Emitted(r, "refused")[1].args[1].text = "Post data exceeded limit of %1 bytes"
            /\ Emitted(r, "refused")[1].args[1].params = <<<<server.maxSize>>>>
            /\ Emitted(r, "data") = <<>>
            /\ Emitted(r, "check") = <<>>
            /\ pc[r] \in {"receiving", "ended"}

\* chunks and the end of the body arrived after the rejection
C11_Witness ==
    \E r \in Reqs :
        /\ pc[r] = "ended" /\ rest[r] = <<>>
        /\ size[r] > server.maxSize
        /\ Len(sent[r]) > size[r]
        /\ Len(Responses(r)) = 1


BothConfigured == server.credentials.username # <<>> /\ server.credentials.password # <<>>
\* the header `Basic base64(username:password)` of the configured credentials
ExactAuthorization ==
    <<SchemeWord, Base64(server.credentials.username \o <<":">> \o server.credentials.password)>>
\* the request was answered 401
Unauthorized(r) == Responses(r) # <<>> /\ Responses(r)[1].code = 401

\* C12: with username and password configured, a request is accepted by
\* authentication iff its header is `Basic base64(username:password)` exactly;
\* every other request gets 401 and exactly one `refused` notification
\* 'Request did not contain required authentication headers'.
C12_AuthenticationExact ==
    \A r \in Reqs :
        (pc[r] # "idle" /\ BothConfigured) =>
            /\ Unauthorized(r) <=> request[r].authorization # ExactAuthorization
            /\ Unauthorized(r) =>
                /\ Len(Responses(r)) = 1
                /\ Len(Emitted(r, "refused")) = 1
                /\ Emitted(r, "refused")[1].args[1].text
                       = "Request did not contain required authentication headers"


\* the url up to its query string
PathnameOf(url) ==
    IF \E i \in 1..Len(url) : url[i] = "?"
    THEN SubSeq(url, 1, (CHOOSE i \in 1..Len(url) : url[i] = "?" /\ \A j \in 1..(i - 1) : url[j] # "?") - 1)
    ELSE url
IsStringPrefix(p, text) == \E n \in 0..Len(text) : SubSeq(text, 1, n) = p
NotFound(r) == Responses(r) # <<>> /\ Responses(r)[1].code = 404

\* C13: for every configured prefix P and request path R (query string
\* ignored), a request that passed authentication is accepted by path
\* validation iff R starts with P; otherwise it gets 404 and exactly one
\* `refused` notification 'Requested path "R" does not match "P"'.
C13_PathPrefix ==
    \A r \in Reqs :
        (pc[r] # "idle" /\ ~Unauthorized(r)) =>
            /\ Accepted(r) <=> IsStringPrefix(server.path, PathnameOf(request[r].url))
            /\ ~Accepted(r) =>
                /\ Len(Responses(r)) = 1
                /\ Responses(r)[1].code = 404
                /\ Len(Emitted(r, "refused")) = 1
                /\ Emitted(r, "refused")[1].args[1].text = "Requested path \"%1\" does not match \"%2\""
                /\ Emitted(r, "refused")[1].args[1].params = <<PathnameOf(request[r].url), server.path>>

\* a mismatching path whose query string contains the prefix
C13_Witness ==
    \E r \in Reqs :
        /\ request[r].url = <<"/", "b", "?", "/", "a">>
        /\ server.path = <<"/", "a">>
        /\ NotFound(r) /\ rest[r] = <<>> /\ sent[r] # <<>>


\* the authentication step refuses the request's header
AuthRefuses(r) == ~validateAuthentication(request[r].authorization).ret
PathMismatch(r) == ~IsStringPrefix(server.path, PathnameOf(request[r].url))

\* C14: validation runs authentication first, then path, each short-circuiting:
\* a request refused by both gets 401 and one `refused` notification, and for a
\* request rejected by authentication or path no chunk is counted, buffered or
\* parsed and nothing but the one response and notification ever happens.
C14_ValidationOrder ==
    \A r \in Reqs :
        /\ (pc[r] # "idle" /\ AuthRefuses(r) /\ PathMismatch(r)) =>
            /\ pc[r] = "rejected"
            /\ Responses(r)[1].code = 401
        /\ (pc[r] # "idle" /\ ~AuthRefuses(r) /\ PathMismatch(r)) =>
            /\ pc[r] = "rejected"
            /\ Responses(r)[1].code = 404
        /\ pc[r] = "rejected" =>
            /\ Len(trace[r]) = 2
            /\ Len(Responses(r)) = 1
            /\ Len(Emitted(r, "refused")) = 1
            /\ size[r] = 0 /\ buffer[r] = <<>> /\ rawData[r] = <<>>
            /\ doneTimeout[r] = "unset" /\ ~destroyed[r]

\* refused by both steps, and the whole body has arrived since
C14_Witness ==
    \E r \in Reqs :
        /\ pc[r] = "rejected" /\ AuthRefuses(r) /\ PathMismatch(r)
        /\ Len(sent[r]) > server.maxSize /\ rest[r] = <<>>
        /\ Unauthorized(r)


\* the bytes are no zlib stream
InvalidStream(bytes) == bytes = <<>> \/ bytes[1] # "Z"
BadRequest(r) == Responses(r) # <<>> /\ Responses(r)[1].code = 400

\* C15: for a gzip request nothing is decompressed or handled while the body
\* is arriving; after end-of-body the whole accumulated body is inflated, and
\* if that fails the response is written once with 400, exactly one `refused`
\* notification 'Could not inflate compressed data' is emitted and no check,
\* parse or `data` step runs.
C15_InflateFailure ==
    \A r \in Reqs :
        (Accepted(r) /\ request[r].encoding = "gzip") =>
            /\ pc[r] = "receiving" =>
                /\ ~BadRequest(r) /\ rawData[r] = <<>>
                /\ Emitted(r, "check") = <<>> /\ Emitted(r, "data") = <<>>
            /\ pc[r] = "handled" => sent[r] = <<"Z">> \o rawData[r]
            /\ (pc[r] \in {"ended", "handled"} /\ ~destroyed[r] /\ InvalidStream(sent[r])) =>
                /\ pc[r] = "ended"
                /\ Len(trace[r]) = 2
                /\ Len(Responses(r)) = 1 /\ Responses(r)[1].code = 400
                /\ Len(Emitted(r, "refused")) = 1
                /\ Emitted(r, "refused")[1].args[1].text = "Could not inflate compressed data"
                /\ rawData[r] = <<>> /\ doneTimeout[r] = "unset"

\* a gzip request whose body is the uncompressed check text
C15_Witness ==
    \E r \in Reqs :
        /\ pc[r] = "ended" /\ request[r].encoding = "gzip" /\ ~destroyed[r]
        /\ sent[r] = CHECK_TEXT /\ BadRequest(r)


RefusalCodes == {401, 404, 413, 400}

\* C16: per request the notifications `refused`, `check` and `data` exclude
\* each other and each is emitted at most once; a refused request (401, 404,
\* 413, 400) never produces `data`, and `data` is emitted only for a payload
\* that was handled and parsed completely.
C16_RejectionsStayInside ==
    \A r \in Reqs :
        /\ Len(Emitted(r, "refused")) + Len(Emitted(r, "check")) + Len(Emitted(r, "data")) <= 1
        /\ Emitted(r, "refused") # <<>> =>
            /\ Responses(r)[1].code \in RefusalCodes
            /\ Emitted(r, "data") = <<>>
        /\ (Responses(r) # <<>> /\ Responses(r)[1].code \in RefusalCodes) => Emitted(r, "data") = <<>>
        /\ Delivered(r) =>
            /\ pc[r] = "handled"
            /\ rawData[r] # CHECK_TEXT
            /\ ~Malformed(server.format, rawData[r])
            /\ ~destroyed[r]

\* an envelope cut short was refused and nothing reached the application
C16_Witness ==
    \E r \in Reqs :
        /\ pc[r] = "handled" /\ rawData[r] = <<"{", "I", "[", "1", "]">>
        /\ Len(Emitted(r, "refused")) = 1 /\ Emitted(r, "data") = <<>>


\* C17: parsing round-trips in every format. For json_meta and json_array,
\* parse of the serialized envelope {interactions: X} returns X for every
\* array X of records; for json_new_line, parse of the records of a non-empty
\* X serialized one per line and joined by newline returns X. The order is
\* kept and the parse writes no response and emits no `refused`.
C17_ParseRoundTrip ==
    \A r \in Reqs : \A X \in RichBatches :
        call[r].fn = "parse" =>
            /\ (server.format \in {"json_meta", "json_array"}
                /\ call[r].args[1] = Serialize(EnvelopeOf(X)))
               => (call[r].ret = Arr(X) /\ trace[r] = <<>>)
            /\ (server.format = "json_new_line" /\ X # <<>>
                /\ call[r].args[1] = JoinLines(X))
               => (call[r].ret = Arr(X) /\ trace[r] = <<>>)

\* two different records, one with a member, came back in their order from
\* an envelope
C17_Witness ==
    \E r \in Reqs :
        /\ call[r].fn = "parse" /\ server.format = "json_array"
        /\ call[r].args[1] = <<"{", "I", "[", "{", "K", "1", "}", ",", "n", "]", "}">>
        /\ call[r].ret = Arr(<<Obj(<<[k |-> "K", v |-> Num]>>), Null>>)

ReasonPhrase(code) ==
    CASE code = 400 -> "Bad Request"
      [] code = 401 -> "Unauthorized"
      [] code = 404 -> "Not Found"
      [] code = 413 -> "Request Entity Too Large"
      [] code = 500 -> "Internal Server Error"

\* C18: respond writes status 200 when no code is given and the given code
\* otherwise; the body is the caller's text when supplied, else the success
\* body {"success":true} for status 200 and the standard reason phrase of the
\* status for every other code.
C18_RespondDefaults ==
    \A r \in Reqs :
        call[r].fn = "respond" =>
            LET code == call[r].args[1]
                data == call[r].args[2]
                status == IF code = 0 THEN 200 ELSE code
            IN /\ Len(trace[r]) = 1
               /\ trace[r][1].kind = "respond"
               /\ trace[r][1].code = status
               /\ trace[r][1].args =
                    <<IF data # "" THEN data
                      ELSE IF status = 200 THEN "{\"success\":true}"
                      ELSE ReasonPhrase(status)>>

\* respond called with neither code nor data wrote 200 and the success body
C18_Witness ==
    \E r \in Reqs :
        /\ call[r].fn = "respond" /\ call[r].args = <<0, "">>
        /\ trace[r] = <<[kind |-> "respond", name |-> "", code |-> 200, args |-> <<"{\"success\":true}">>]>>


InitializedOnce ==
    /\ Len(initialized) <= 1
    /\ listening <=> Len(initialized) = 1
    /\ initialized # <<>> => initialized[1] = <<server.port, server.hostname>>
    /\ \A r \in Reqs : Emitted(r, "initialized") = <<>>

\* C19: after construction `initialized` is emitted exactly once, when the
\* transport starts listening, with the configured port and hostname; request
\* handling never emits it again.
C19_InitializedOnce == []InitializedOnce /\ <>(Len(initialized) = 1)

\* a server configured away from the defaults announced its own port and
\* hostname and then handled a request to the end
C19_Witness ==
    /\ initialized = <<<<1234, "example.com">>>>
    /\ \E r \in Reqs : pc[r] = "handled" /\ Delivered(r)


SizeRefusals(r) ==
    SelectSeq(Emitted(r, "refused"),
              LAMBDA e : e.args[1].text = "Post data exceeded limit of %1 bytes")
\* the text that handleCheck and parse are given for the bytes sent
ContentOf(r) == IF request[r].encoding = "gzip" THEN Tail(sent[r]) ELSE sent[r]

\* C20: size validation rejects only when the cumulative byte count strictly
\* exceeds maxSize: a body whose chunks total no more than maxSize bytes,
\* exactly maxSize included, is under every split into chunks never answered
\* 413, produces no size `refused` notification, and its complete content
\* reaches the check/parse step.
C20_ExactSizeAccepted ==
    \A r \in Reqs :
        (Accepted(r) /\ Len(sent[r]) <= server.maxSize) =>
            /\ ~destroyed[r]
            /\ Destroys(r) = <<>>
            /\ \A i \in 1..Len(Responses(r)) : Responses(r)[i].code # 413
            /\ SizeRefusals(r) = <<>>
            /\ size[r] = Len(sent[r])
            /\ buffer[r] = sent[r]
            /\ pc[r] = "handled" => rawData[r] = ContentOf(r)

\* a body of exactly maxSize bytes arrived and was delivered whole
C20_Witness ==
    \E r \in Reqs :
        /\ pc[r] = "handled" /\ Len(sent[r]) = server.maxSize
        /\ rawData[r] = sent[r] /\ Delivered(r)


\* C21: with several requests in flight and their chunks interleaved in any
\* order, the payload handed to the check/parse step of a request is the
\* concatenation of its own chunks in arrival order, and its cumulative size
\* counts only its own chunks: a request is rejected for its size only when
\* its own chunks exceed maxSize.
C21_BuffersNotShared ==
    \A r \in Reqs :
        /\ Accepted(r) => size[r] <= Len(sent[r])
        /\ (Accepted(r) /\ Len(sent[r]) <= server.maxSize) =>
            /\ ~destroyed[r]
            /\ Destroys(r) = <<>>
            /\ SizeRefusals(r) = <<>>
            /\ size[r] = Len(sent[r])
            /\ buffer[r] = sent[r]
        /\ pc[r] = "handled" => rawData[r] = ContentOf(r)

\* one request was rejected for its size while the other, of exactly maxSize
\* bytes, was delivered whole
C21_Witness ==
    \E r, o \in Reqs :
        /\ r # o
        /\ destroyed[r] /\ Len(sent[r]) > server.maxSize /\ Len(sent[o]) = server.maxSize
        /\ pc[o] = "handled" /\ Delivered(o) /\ rawData[o] = sent[o]


\* zero bytes, or whitespace only
Blank(text) == \A i \in 1..Len(text) : text[i] = NL
\* end-of-body has been handled for a request that was not cut off
BodyEnded(r) == pc[r] \in {"handled", "ended"} /\ ~destroyed[r]

\* C22: an empty payload (a body that ends with zero bytes, or one of only
\* whitespace) is a parse error in every format: status 400 and one `refused`
\* notification, never a `data` notification with an empty batch.
C22_EmptyPayloadRefused ==
    \A r \in Reqs :
        (BodyEnded(r) /\ (Blank(sent[r]) \/ (pc[r] = "handled" /\ Blank(rawData[r])))) =>
            /\ Len(Responses(r)) = 1 /\ Responses(r)[1].code = 400
            /\ Len(Emitted(r, "refused")) = 1
            /\ Emitted(r, "data") = <<>>
            /\ Emitted(r, "check") = <<>>
            /\ doneTimeout[r] = "unset"

\* a newline-format body of one line break was refused
C22_Witness ==
    \E r \in Reqs :
        /\ pc[r] = "handled" /\ server.format = "json_new_line" /\ rawData[r] = <<NL>>
        /\ Len(Responses(r)) = 1 /\ Responses(r)[1].code = 400


\* C23: per-request processing is strictly sequential: for a request that
\* passed authentication and path validation, before end-of-body has been
\* signalled no `check` or `data` notification is emitted, no parse is
\* attempted and no 200 or 400 response is written; while chunks are still
\* arriving the only possible response is the 413 size rejection.
C23_NothingBeforeEnd ==
    \A r \in Reqs :
        pc[r] = "receiving" =>
            /\ Emitted(r, "check") = <<>>
            /\ Emitted(r, "data") = <<>>
            /\ Emitted(r, "error") = <<>>
            /\ Emitted(r, "refused") = SizeRefusals(r)
            /\ \A i \in 1..Len(Responses(r)) : Responses(r)[i].code = 413
            /\ Responses(r) # <<>> => Len(sent[r]) > server.maxSize
            /\ rawData[r] = <<>>
            /\ doneTimeout[r] = "unset"

\* the whole of a batch has arrived but end-of-body has not been signalled:
\* nothing has been answered or emitted
C23_Witness ==
    \E r \in Reqs :
        /\ pc[r] = "receiving" /\ rest[r] = <<>>
        /\ sent[r] = <<"{", "I", "[", "1", "]", "}">>
        /\ trace[r] = <<>>


\* the payload is an envelope whose interactions is an array
BatchPayload(raw) == ValidJSON(raw) /\ GetMember(JSONParse(raw).val, "I").t = "array"
AbsentHeaders == [hash |-> "undefined", hash_type |-> "undefined", id |-> "undefined"]
\* two requests that differ at most in their sender headers, handled and
\* confirmed alike
AlikeButHeaders(r, o) ==
    /\ pc[r] = "handled" /\ pc[o] = "handled"
    /\ request[r].url = request[o].url
    /\ request[r].encoding = request[o].encoding
    /\ sent[r] = sent[o]
    /\ calls[r] = calls[o]
    /\ doneTimeout[r] = doneTimeout[o]

\* C24: request metadata is built for every delivered batch and absent sender
\* headers are not an error: a request without the hash, hash-type and
\* subscription-id headers is still delivered with a `data` notification
\* whose metadata has those three fields undefined, and gets the same response
\* as a request that carries them.
C24_AbsentHeadersDelivered ==
    /\ \A r \in Reqs :
        (pc[r] = "handled" /\ BatchPayload(rawData[r])) =>
            /\ Len(Emitted(r, "data")) = 1
            /\ Emitted(r, "refused") = <<>>
            /\ LET meta == Emitted(r, "data")[1].args[2] IN
               /\ meta.hash = request[r].sender.hash
               /\ meta.hash_type = request[r].sender.hash_type
               /\ meta.id = request[r].sender.id
               /\ request[r].sender = AbsentHeaders =>
                    (meta.hash = "undefined" /\ meta.hash_type = "undefined" /\ meta.id = "undefined")
    /\ \A r, o \in Reqs :
        (AlikeButHeaders(r, o) /\ request[r].sender = AbsentHeaders) =>
            /\ Responses(r) = Responses(o)
            /\ Len(Emitted(r, "data")) = Len(Emitted(o, "data"))

\* the same batch came without and with sender headers: both were delivered
\* and answered alike
C24_Witness ==
    \E r, o \in Reqs :
        /\ AlikeButHeaders(r, o)
        /\ request[r].sender = AbsentHeaders /\ request[o].sender # AbsentHeaders
        /\ Delivered(r) /\ Delivered(o)
        /\ Emitted(r, "data")[1].args[2].hash = "undefined"
        /\ Emitted(o, "data")[1].args[2].hash = "h1"
        /\ Len(Responses(r)) = 1 /\ Responses(r) = Responses(o)


AuthRefusals(r) ==
    SelectSeq(Emitted(r, "refused"),
              LAMBDA e : e.args[1].text = "Request did not contain required authentication headers")

\* C25: when no credentials are configured, or only one of username and
\* password, authentication accepts every request whatever its Authorization
\* header, writes no response and emits no `refused` notification.
C25_OptionalCredentials ==
    \A r \in Reqs :
        (pc[r] # "idle" /\ ~(server.credentials.username # <<>> /\ server.credentials.password # <<>>)) =>
            /\ \A i \in 1..Len(Responses(r)) : Responses(r)[i].code # 401
            /\ AuthRefusals(r) = <<>>
            /\ Accepted(r) <=> IsStringPrefix(server.path, PathnameOf(request[r].url))
            /\ pc[r] = "rejected" => Responses(r)[1].code = 404
            /\ (pc[r] = "receiving" /\ sent[r] = <<>>) => trace[r] = <<>>

\* only the username is configured and a request with other credentials in
\* its header was accepted and handled
C25_Witness ==
    \E r \in Reqs :
        /\ server.credentials = [username |-> <<"u">>, password |-> <<>>]
        /\ request[r].authorization = <<SchemeWord, Base64(<<"u", ":", "x">>)>>
        /\ pc[r] = "handled" /\ Responses(r) # <<>> /\ Responses(r)[1].code = 200


IsRespond(e, codes) == e.kind = "respond" /\ e.code \in codes
IsEmit(e, name) == e.kind = "emit" /\ e.name = name

\* C26: response and notification are ordered per path: on every rejection
\* (401, 404, 413, 400) and on a check the response is written before the
\* `refused` or `check` notification (for 413 the connection is closed before
\* the notification too); on delivery `data` is emitted before the response
\* is written; on timeout `error` is emitted before the 500 response.
C26_ResponseNotificationOrder ==
    \A r \in Reqs : \A i \in 1..Len(trace[r]) :
        LET t == trace[r] IN
        /\ IsEmit(t[i], "refused") =>
            \/ i > 1 /\ IsRespond(t[i - 1], {401, 404, 400})
            \/ i > 2 /\ t[i - 1].kind = "destroy" /\ IsRespond(t[i - 2], {413})
        /\ IsRespond(t[i], {401, 404, 400}) => (i < Len(t) /\ IsEmit(t[i + 1], "refused"))
        /\ IsRespond(t[i], {413}) =>
            (i + 1 < Len(t) /\ t[i + 1].kind = "destroy" /\ IsEmit(t[i + 2], "refused"))
        /\ IsEmit(t[i], "check") => (i > 1 /\ IsRespond(t[i - 1], {200}))
        /\ IsEmit(t[i], "data") =>
            /\ \A j \in 1..(i - 1) : t[j].kind # "respond"
            /\ ~server.confirmData => (i < Len(t) /\ IsRespond(t[i + 1], {200}))
        /\ IsEmit(t[i], "error") => (i < Len(t) /\ IsRespond(t[i + 1], {500}))

\* an unconfirmed delivery: `data`, then the 200 response
C26_Witness ==
    \E r \in Reqs :
        /\ ~server.confirmData /\ Len(trace[r]) = 2
        /\ IsEmit(trace[r][1], "data") /\ IsRespond(trace[r][2], {200})


\* the step invokes the completion callback of r, or fires its timer
Completes(r) ==
    \/ calls'[r] # calls[r]
    \/ doneTimeout[r] = "pending" /\ doneTimeout'[r] = "fired"
CompletionState(r) == <<pc[r], doneTimeout[r], calls[r], trace[r]>>
OwnCompletion ==
    \A r \in Reqs :
        /\ Delivered(r) /\ server.confirmData =>
            Emitted(r, "data")[1].args[3] = [fn |-> "done", req |-> r]
        /\ Completes(r) =>
            /\ Len(Responses(r))' = Len(Responses(r)) + 1
            /\ doneTimeout'[r] # "pending"
            /\ \A o \in Reqs \ {r} : CompletionState(o)' = CompletionState(o)

\* C27: with several confirmed-mode requests awaiting confirmation at once,
\* each has its own completion callback and its own timer: invoking the
\* callback of one request, or the firing of its timer, writes only that
\* request's response and cancels only that request's timer, and leaves the
\* pending state, timer and response of every other request unchanged.
C27_CompletionsIndependent == [][OwnCompletion]_vars

\* one request has been confirmed and answered while the other, delivered
\* too, is still awaiting its confirmation with its timer pending
C27_Witness ==
    \E r, o \in Reqs :
        /\ r # o /\ server.confirmData
        /\ calls[r] # <<>> /\ doneTimeout[r] = "cleared" /\ Len(Responses(r)) = 1
        /\ Delivered(o) /\ doneTimeout[o] = "pending" /\ calls[o] = <<>> /\ Responses(o) = <<>>

====
